---- MODULE Spec2Model ----
(***************************************************************************)
(* Model of dashboard.py: the aggregation helpers (create_*_df), the       *)
(* inline aggregations of the dashboard script and the script itself.      *)
(*                                                                         *)
(* A table (DataFrame) is a sequence of rows; a row is a function from     *)
(* column names to values.  A float is a record: an exact rational         *)
(* [k |-> "num", n, d] in lowest terms, NaN or +inf.  A value produced by  *)
(* Series.shift is <<v>> when present and <<>> when missing (NaN).         *)
(***************************************************************************)
EXTENDS Integers, Sequences, FiniteSets, TLC

VARIABLES df, last, repeated, out, pertumbuhan_tahunan,
          pc, hour_df, day_df, date_range, selected_weather,
          filtered_hour_df, hourly_patterns, daily_patterns, weather_impact,
          monthly_trends, lag_df

opVars == <<df, last, repeated, out>>
runVars == <<pc, hour_df, day_df, date_range, selected_weather,
             filtered_hour_df, hourly_patterns, daily_patterns,
             weather_impact, monthly_trends, lag_df>>
vars == <<df, last, repeated, out, pertumbuhan_tahunan,
          pc, hour_df, day_df, date_range, selected_weather,
          filtered_hour_df, hourly_patterns, daily_patterns, weather_impact,
          monthly_trends, lag_df>>

(***************************************************************************)
(* Bounds                                                                  *)
(***************************************************************************)
MaxLen == 4

(***************************************************************************)
(* Floats                                                                  *)
(***************************************************************************)
RECURSIVE Gcd(_, _)
Gcd(a, b) == IF b = 0 THEN a ELSE Gcd(b, a % b)

Abs(x) == IF x < 0 THEN -x ELSE x

NaN == [k |-> "nan", n |-> 0, d |-> 1]

Inf == [k |-> "inf", n |-> 1, d |-> 1]

Num(n, d) ==
    LET g == Gcd(Abs(n), Abs(d))
        s == IF d < 0 THEN -1 ELSE 1
    IN  [k |-> "num", n |-> s * (n \div g), d |-> s * (d \div g)]

FAdd(a, b) ==
    IF a.k = "nan" \/ b.k = "nan" THEN NaN
    ELSE IF a.k = "inf" \/ b.k = "inf" THEN Inf
    ELSE Num(a.n * b.d + b.n * a.d, a.d * b.d)

FMul(a, b) ==
    IF a.k = "nan" \/ b.k = "nan" THEN NaN
    ELSE IF a.k = "inf" \/ b.k = "inf"
         THEN (IF a.n = 0 \/ b.n = 0 THEN NaN ELSE Inf)
    ELSE Num(a.n * b.n, a.d * b.d)

\* numpy float64 division of non-negative operands: x/0 is inf (0/0 is nan)
FDiv(a, b) ==
    IF a.k = "nan" \/ b.k = "nan" THEN NaN
    ELSE IF a.k = "inf" THEN (IF b.k = "inf" THEN NaN ELSE Inf)
    ELSE IF b.k = "inf" THEN Num(0, 1)
    ELSE IF b.n = 0 THEN (IF a.n = 0 THEN NaN ELSE Inf)
    ELSE Num(a.n * b.d, a.d * b.n)

\* the sum of a float series (summed by halves, the sums are exact)
RECURSIVE FSum(_)
FSum(s) ==
    IF s = <<>> THEN Num(0, 1)
    ELSE IF Len(s) = 1 THEN s[1]
    ELSE LET h == Len(s) \div 2
         IN  FAdd(FSum(SubSeq(s, 1, h)), FSum(SubSeq(s, h + 1, Len(s))))

\* Series.mean(): NaN for an empty series
Mean(s) == IF s = <<>> THEN NaN ELSE FDiv(FSum(s), Num(Len(s), 1))

(***************************************************************************)
(* Tables                                                                  *)
(***************************************************************************)
Column(t, c) == [i \in 1..Len(t) |-> t[i][c]]

FloatColumn(t, c) == [i \in 1..Len(t) |-> Num(t[i][c], 1)]

\* df[c] = values : adds the column or overwrites it
SetColumn(t, c, values) == [i \in 1..Len(t) |-> (c :> values[i]) @@ t[i]]

\* t[mask]: the rows whose mask is true, in their order in t
Filter(t, mask) ==
    LET P == {i \in 1..Len(t) : mask[i]}
    IN  [j \in 1..Cardinality(P) |->
            t[CHOOSE p \in P : Cardinality({q \in P : q <= p}) = j]]

\* Series.shift(periods): the value of row i - periods, missing outside
Shift(col, periods) ==
    [i \in 1..Len(col) |->
        IF (i - periods) \in 1..Len(col) THEN <<col[i - periods]>> ELSE <<>>]

\* Series.map(dict): an unmapped key gives NaN
NaNLabel == "NaN"

MapDict(dict, key) == IF key \in DOMAIN dict THEN dict[key] ELSE NaNLabel

(***************************************************************************)
(* groupby(keys).agg({c: 'mean'}).reset_index()                            *)
(***************************************************************************)
KeyOf(row, keys) == [j \in 1..Len(keys) |-> row[keys[j]]]

RECURSIVE KeyLess(_, _)
KeyLess(a, b) ==
    IF a = <<>> THEN FALSE
    ELSE IF Head(a) # Head(b) THEN Head(a) < Head(b)
    ELSE KeyLess(Tail(a), Tail(b))

\* the keys of S in ascending order: the j-th has j-1 keys below it
SortKeys(S) ==
    [j \in 1..Cardinality(S) |->
        CHOOSE x \in S : Cardinality({y \in S : KeyLess(y, x)}) = j - 1]

RECURSIVE GroupKeys_unsorted(_, _)
GroupKeys_unsorted(t, keys) ==
    IF t = <<>> THEN <<>>
    ELSE LET k == KeyOf(Head(t), keys)
             rest == GroupKeys_unsorted(Tail(t), keys)
         IN  <<k>> \o SelectSeq(rest, LAMBDA x : x # k)

\* the group keys present in the table, ascending (groupby sorts its keys)
GroupKeys(t, keys) == SortKeys({KeyOf(t[i], keys) : i \in 1..Len(t)})

GroupRows(t, keys, key) ==
    Filter(t, [i \in 1..Len(t) |-> KeyOf(t[i], keys) = key])

KeyIndex(keys, c) == CHOOSE j \in 1..Len(keys) : keys[j] = c

GroupMean(t, keys, aggs) ==
    LET ks == GroupKeys(t, keys)
        KeyCols == {keys[j] : j \in 1..Len(keys)}
    IN  [g \in 1..Len(ks) |->
           [c \in KeyCols \cup aggs |->
               IF c \in aggs
               THEN Mean(FloatColumn(GroupRows(t, keys, ks[g]), c))
               ELSE ks[g][KeyIndex(keys, c)]]]

(***************************************************************************)
(* Helper functions                                                        *)
(***************************************************************************)
CountColumns == {"casual", "registered", "cnt"}

create_hourly_patterns_df_sum(t) ==
    LET m == GroupMean(t, <<"hr">>, CountColumns)
    IN  [g \in 1..Len(m) |->
           ("cnt" :> FSum(FloatColumn(GroupRows(t, <<"hr">>, <<m[g].hr>>), "cnt")))
           @@ m[g]]

create_hourly_patterns_df(t) == GroupMean(t, <<"hr">>, CountColumns)

day_names ==
    (0 :> "Sunday") @@ (1 :> "Monday") @@ (2 :> "Tuesday") @@
    (3 :> "Wednesday") @@ (4 :> "Thursday") @@ (5 :> "Friday") @@
    (6 :> "Saturday")

create_daily_patterns_df(t) ==
    LET daily == GroupMean(t, <<"weekday">>, CountColumns)
    IN  SetColumn(daily, "day_name",
                  [g \in 1..Len(daily) |-> MapDict(day_names, daily[g].weekday)])

weather_descs ==
    (1 :> "Clear") @@ (2 :> "Mist + Cloudy") @@ (3 :> "Light Snow/Rain") @@
    (4 :> "Heavy Rain/Snow")

create_weather_impact_df(t) ==
    LET impact == GroupMean(t, <<"weathersit">>, CountColumns)
    IN  SetColumn(impact, "weather_desc",
                  [g \in 1..Len(impact) |->
                      MapDict(weather_descs, impact[g].weathersit)])

\* pd.to_datetime(dteday).dt.to_period('M'): a date yyyymmdd gives yyyymm
ToPeriodM(date) == date \div 100

\* Period.astype(str): "yyyy-mm"
PeriodStr(p) ==
    ToString(p \div 100) \o "-" \o
    (IF p % 100 < 10 THEN "0" ELSE "") \o ToString(p % 100)

\* line 43: the input table gets (or has overwritten) the column ym
WithYm(t) ==
    SetColumn(t, "ym", [i \in 1..Len(t) |-> ToPeriodM(t[i].dteday)])

create_monthly_trends_df(t) ==
    LET trends == GroupMean(WithYm(t), <<"ym", "yr">>, {"cnt"})
    IN  SetColumn(trends, "ym",
                  [g \in 1..Len(trends) |-> PeriodStr(trends[g].ym)])

WithLags_rolling(t) ==
    LET again == t # <<>> /\ "cnt_lag1" \in DOMAIN t[1]
        src == IF again THEN Column(t, "cnt_lag1")
               ELSE [i \in 1..Len(t) |-> <<t[i].cnt>>]
        lag1 == [i \in 1..Len(t) |-> IF i + 1 <= Len(t) THEN src[i + 1] ELSE <<>>]
        a == SetColumn(t, "cnt_lag1", lag1)
        b == SetColumn(a, "cnt_lag2", Shift(Column(a, "cnt"), -2))
        c == SetColumn(b, "casual_lag1", Shift(Column(b, "casual"), -1))
        d == SetColumn(c, "casual_lag2", Shift(Column(c, "casual"), -2))
        e == SetColumn(d, "registered_lag1", Shift(Column(d, "registered"), -1))
    IN  SetColumn(e, "registered_lag2", Shift(Column(e, "registered"), -2))

\* lines 53-58: the input table gets (or has overwritten) six lag columns
WithLags(t) ==
    LET a == SetColumn(t, "cnt_lag1", Shift(Column(t, "cnt"), -1))
        b == SetColumn(a, "cnt_lag2", Shift(Column(a, "cnt"), -2))
        c == SetColumn(b, "casual_lag1", Shift(Column(b, "casual"), -1))
        d == SetColumn(c, "casual_lag2", Shift(Column(c, "casual"), -2))
        e == SetColumn(d, "registered_lag1", Shift(Column(d, "registered"), -1))
    IN  SetColumn(e, "registered_lag2", Shift(Column(e, "registered"), -2))

BadWeather(t) == Filter(t, [i \in 1..Len(t) |-> t[i].weathersit >= 3])

create_lag_analysis_df_filter_first(t) == WithLags(BadWeather(t))

create_lag_analysis_df(t) == BadWeather(WithLags(t))

(***************************************************************************)
(* Inline aggregations of the script                                       *)
(***************************************************************************)
weather_labels ==
    (1 :> "Clear/Partly Cloudy") @@ (2 :> "Mist/Cloudy") @@
    (3 :> "Light Rain/Snow") @@ (4 :> "Heavy Rain/Snow")

\* lines 302-314
WeatherImpact(t) ==
    LET impact == GroupMean(t, <<"weathersit">>, CountColumns)
    IN  SetColumn(impact, "weather_condition",
                  [g \in 1..Len(impact) |->
                      MapDict(weather_labels, impact[g].weathersit)])

nama_bulan ==
    (1 :> "Jan") @@ (2 :> "Feb") @@ (3 :> "Mar") @@ (4 :> "Apr") @@
    (5 :> "Mei") @@ (6 :> "Jun") @@ (7 :> "Jul") @@ (8 :> "Agu") @@
    (9 :> "Sep") @@ (10 :> "Okt") @@ (11 :> "Nov") @@ (12 :> "Des")

tahun == (0 :> "2011") @@ (1 :> "2012")

MonthlyTrends_by_month(t) ==
    LET trends == GroupMean(t, <<"mnth", "yr">>, CountColumns)
        bulan == [g \in 1..Len(trends) |-> MapDict(nama_bulan, trends[g].mnth)]
        thn == [g \in 1..Len(trends) |-> MapDict(tahun, trends[g].yr)]
        a == SetColumn(trends, "bulan", bulan)
        b == SetColumn(a, "tahun", thn)
    IN  SetColumn(b, "periode",
                  [g \in 1..Len(trends) |-> bulan[g] \o " " \o thn[g]])

\* lines 378-390
MonthlyTrends(t) ==
    LET trends == GroupMean(t, <<"yr", "mnth">>, CountColumns)
        bulan == [g \in 1..Len(trends) |-> MapDict(nama_bulan, trends[g].mnth)]
        thn == [g \in 1..Len(trends) |-> MapDict(tahun, trends[g].yr)]
        a == SetColumn(trends, "bulan", bulan)
        b == SetColumn(a, "tahun", thn)
    IN  SetColumn(b, "periode",
                  [g \in 1..Len(trends) |-> bulan[g] \o " " \o thn[g]])

\* monthly_trends[monthly_trends['yr']==y][c].mean()
YearMean(trends, y, c) ==
    Mean(Column(Filter(trends, [g \in 1..Len(trends) |-> trends[g].yr = y]), c))

Growth(trends, c) ==
    FMul(FAdd(FDiv(YearMean(trends, 1, c), YearMean(trends, 0, c)),
              Num(-1, 1)),
         Num(100, 1))

\* lines 392-397
PertumbuhanTahunan(trends) ==
    [casual |-> Growth(trends, "casual"),
     registered |-> Growth(trends, "registered")]

(***************************************************************************)
(* Loaded records                                                          *)
(***************************************************************************)
\* weekday column of the sample dates (0 is Sunday)
Calendar ==
    (20110102 :> 0) @@ (20110204 :> 5) @@ (20120101 :> 0) @@ (20120106 :> 5)

\* one record of hour.csv; yr, mnth and weekday are those of the date
Row(date, hr, weathersit, casual, registered) ==
    [dteday |-> date, yr |-> (date \div 10000) - 2011,
     mnth |-> (date \div 100) % 100, weekday |-> Calendar[date],
     hr |-> hr, weathersit |-> weathersit,
     casual |-> casual, registered |-> registered,
     cnt |-> casual + registered]

\* the records a table handed to a helper function is made of; weathersit 5
\* is a code outside the label mappings
RowDomain ==
    { Row(20110102, 8, 1, 0, 2), Row(20110204, 17, 3, 4, 3),
      Row(20120101, 8, 5, 3, 1), Row(20120106, 17, 2, 2, 2) }

Tables == UNION { [1..n -> RowDomain] : n \in 0..MaxLen }

Unset == [k |-> "unset", n |-> 0, d |-> 1]

(***************************************************************************)
(* The helper functions and inline aggregations, called on a table df.     *)
(* last is the operation called last, repeated tells whether the call      *)
(* before it was of the same operation, out is the table it returned.      *)
(***************************************************************************)
InitOps ==
    /\ df \in Tables
    /\ last = "none"
    /\ repeated = FALSE
    /\ out = <<>>
    /\ pertumbuhan_tahunan = [casual |-> Unset, registered |-> Unset]

CallHourlyPatterns ==
    /\ last' = "create_hourly_patterns_df"
    /\ repeated' = (last = "create_hourly_patterns_df")
    /\ out' = create_hourly_patterns_df(df)
    /\ UNCHANGED <<df, pertumbuhan_tahunan>>
    /\ UNCHANGED runVars

CallDailyPatterns ==
    /\ last' = "create_daily_patterns_df"
    /\ repeated' = (last = "create_daily_patterns_df")
    /\ out' = create_daily_patterns_df(df)
    /\ UNCHANGED <<df, pertumbuhan_tahunan>>
    /\ UNCHANGED runVars

CallWeatherImpact ==
    /\ last' = "create_weather_impact_df"
    /\ repeated' = (last = "create_weather_impact_df")
    /\ out' = create_weather_impact_df(df)
    /\ UNCHANGED <<df, pertumbuhan_tahunan>>
    /\ UNCHANGED runVars

CallMonthlyTrends ==
    /\ last' = "create_monthly_trends_df"
    /\ repeated' = (last = "create_monthly_trends_df")
    /\ df' = WithYm(df)
    /\ out' = create_monthly_trends_df(df)
    /\ UNCHANGED pertumbuhan_tahunan
    /\ UNCHANGED runVars

CallLagAnalysis ==
    /\ last' = "create_lag_analysis_df"
    /\ repeated' = (last = "create_lag_analysis_df")
    /\ df' = WithLags(df)
    /\ out' = create_lag_analysis_df(df)
    /\ UNCHANGED pertumbuhan_tahunan
    /\ UNCHANGED runVars

GroupWeatherImpact ==
    /\ last' = "weather_impact"
    /\ repeated' = (last = "weather_impact")
    /\ out' = WeatherImpact(df)
    /\ UNCHANGED <<df, pertumbuhan_tahunan>>
    /\ UNCHANGED runVars

GroupMonthlyTrends ==
    /\ last' = "monthly_trends"
    /\ repeated' = (last = "monthly_trends")
    /\ out' = MonthlyTrends(df)
    /\ pertumbuhan_tahunan' = PertumbuhanTahunan(MonthlyTrends(df))
    /\ UNCHANGED df
    /\ UNCHANGED runVars

\* the five helper functions, called in any order on the same table
Next ==
    \/ CallHourlyPatterns
    \/ CallDailyPatterns
    \/ CallWeatherImpact
    \/ CallMonthlyTrends
    \/ CallLagAnalysis

\* the aggregations the script computes inline, on any table
NextInline ==
    \/ GroupWeatherImpact
    \/ GroupMonthlyTrends

IdleRun ==
    /\ pc = "idle"
    /\ hour_df = <<>>
    /\ day_df = <<>>
    /\ date_range = <<0, 0>>
    /\ selected_weather = {}
    /\ filtered_hour_df = <<>>
    /\ hourly_patterns = <<>>
    /\ daily_patterns = <<>>
    /\ weather_impact = <<>>
    /\ monthly_trends = <<>>
    /\ lag_df = <<>>

Init == InitOps /\ IdleRun

Spec == Init /\ [][Next]_vars

SpecInline == Init /\ [][NextInline]_vars

(***************************************************************************)
(* The dashboard script, one run from load_data() to the footer            *)
(***************************************************************************)
Hours == 0..23

SampleDates == DOMAIN Calendar

SortedDates(S) ==
    [j \in 1..Cardinality(S) |->
        CHOOSE x \in S : Cardinality({y \in S : y < x}) = j - 1]

\* hour.csv: every sample date has its 24 hours, in file (chronological)
\* order; the hour `storm' of every date has weathersit 3
HourRecord(date, hr, storm) ==
    Row(date, hr,
        IF hr = storm THEN 3 ELSE IF hr % 2 = 0 THEN 1 ELSE 2,
        (hr % 3) + ((date \div 10000) - 2011),
        (hr % 5) + 1)

HourTable(storm) ==
    LET ds == SortedDates(SampleDates)
    IN  [i \in 1..(Len(ds) * 24) |->
            HourRecord(ds[((i - 1) \div 24) + 1], (i - 1) % 24, storm)]

\* day.csv: one record per sample date, no hr column; the date `bad' has
\* weathersit 3
DayRecord(date, bad) ==
    [dteday |-> date, yr |-> (date \div 10000) - 2011,
     mnth |-> (date \div 100) % 100, weekday |-> Calendar[date],
     weathersit |-> IF date = bad THEN 3 ELSE 1,
     casual |-> 20 + (date % 7), registered |-> 50 + (date % 11),
     cnt |-> 70 + (date % 7) + (date % 11)]

DayTable(bad) ==
    LET ds == SortedDates(SampleDates)
    IN  [i \in 1..Len(ds) |-> DayRecord(ds[i], bad)]

weather_options == {1, 2, 3, 4}

InitRun ==
    /\ pc = "load"
    /\ hour_df = <<>>
    /\ day_df = <<>>
    /\ date_range = <<0, 0>>
    /\ selected_weather = {}
    /\ filtered_hour_df = <<>>
    /\ hourly_patterns = <<>>
    /\ daily_patterns = <<>>
    /\ weather_impact = <<>>
    /\ monthly_trends = <<>>
    /\ lag_df = <<>>

IdleOps ==
    /\ df = <<>>
    /\ last = "none"
    /\ repeated = FALSE
    /\ out = <<>>
    /\ pertumbuhan_tahunan = [casual |-> Unset, registered |-> Unset]

\* lines 66-73, 97
LoadData ==
    /\ pc = "load"
    /\ \E storm \in {8, 17} : hour_df' = HourTable(storm)
    /\ \E bad \in SampleDates : day_df' = DayTable(bad)
    /\ pc' = "filters"
    /\ UNCHANGED <<date_range, selected_weather, filtered_hour_df,
                   hourly_patterns, daily_patterns, weather_impact,
                   monthly_trends, lag_df, pertumbuhan_tahunan>>
    /\ UNCHANGED opVars

\* lines 128-132
FilterHours(t, range, weather) ==
    Filter(t, [i \in 1..Len(t) |->
                 /\ t[i].dteday >= range[1]
                 /\ t[i].dteday <= range[2]
                 /\ t[i].weathersit \in weather])

\* lines 103-144: the sidebar widgets, the filter and the three metrics
SelectFilters ==
    /\ pc = "filters"
    /\ \E lo \in SampleDates, hi \in SampleDates, w \in SUBSET weather_options :
          /\ lo <= hi
          /\ date_range' = <<lo, hi>>
          /\ selected_weather' = w
          /\ filtered_hour_df' = FilterHours(hour_df, <<lo, hi>>, w)
    /\ pc' = "hourly"
    /\ UNCHANGED <<hour_df, day_df, hourly_patterns, daily_patterns,
                   weather_impact, monthly_trends, lag_df, pertumbuhan_tahunan>>
    /\ UNCHANGED opVars

\* t.loc[label, col] on a table with the index 0..Len(t)-1 raises KeyError
\* when the label is not in the index
HasLabel(t, label) == label + 1 \in 1..Len(t)

\* lines 155-216: hourly_patterns.loc[8, ...] and .loc[17, ...]
HourlySection ==
    /\ pc = "hourly"
    /\ hourly_patterns' = create_hourly_patterns_df(filtered_hour_df)
    /\ pc' = IF HasLabel(hourly_patterns', 8) /\ HasLabel(hourly_patterns', 17)
             THEN "daily" ELSE "error"
    /\ UNCHANGED <<hour_df, day_df, date_range, selected_weather,
                   filtered_hour_df, daily_patterns, weather_impact,
                   monthly_trends, lag_df, pertumbuhan_tahunan>>
    /\ UNCHANGED opVars

\* t[t[col] == v][...].iloc[0] raises IndexError when no row matches
HasRow(t, col, v) == \E g \in 1..Len(t) : t[g][col] = v

\* lines 218-273
DailySection ==
    /\ pc = "daily"
    /\ daily_patterns' = create_daily_patterns_df(filtered_hour_df)
    /\ pc' = IF /\ HasRow(daily_patterns', "day_name", "Sunday")
                /\ HasRow(daily_patterns', "day_name", "Friday")
             THEN "weather" ELSE "error"
    /\ UNCHANGED <<hour_df, day_df, date_range, selected_weather,
                   filtered_hour_df, hourly_patterns, weather_impact,
                   monthly_trends, lag_df, pertumbuhan_tahunan>>
    /\ UNCHANGED opVars

\* lines 299-349: the table of create_weather_impact_df (line 299) is
\* replaced by the inline one (line 302); weather_impact.loc[0, ...]
WeatherSection ==
    /\ pc = "weather"
    /\ weather_impact' = WeatherImpact(filtered_hour_df)
    /\ pc' = IF HasLabel(weather_impact', 0) THEN "monthly" ELSE "error"
    /\ UNCHANGED <<hour_df, day_df, date_range, selected_weather,
                   filtered_hour_df, hourly_patterns, daily_patterns,
                   monthly_trends, lag_df, pertumbuhan_tahunan>>
    /\ UNCHANGED opVars

\* lines 377-449
MonthlySection ==
    /\ pc = "monthly"
    /\ filtered_hour_df' = WithYm(filtered_hour_df)
    /\ monthly_trends' = MonthlyTrends(filtered_hour_df')
    /\ pertumbuhan_tahunan' = PertumbuhanTahunan(monthly_trends')
    /\ pc' = "lag"
    /\ UNCHANGED <<hour_df, day_df, date_range, selected_weather,
                   hourly_patterns, daily_patterns, weather_impact, lag_df>>
    /\ UNCHANGED opVars

\* lines 471-590
LagSection ==
    /\ pc = "lag"
    /\ day_df' = WithLags(day_df)
    /\ lag_df' = create_lag_analysis_df(day_df)
    /\ pc' = "done"
    /\ UNCHANGED <<hour_df, date_range, selected_weather, filtered_hour_df,
                   hourly_patterns, daily_patterns, weather_impact,
                   monthly_trends, pertumbuhan_tahunan>>
    /\ UNCHANGED opVars

NextRun ==
    \/ LoadData
    \/ SelectFilters
    \/ HourlySection
    \/ DailySection
    \/ WeatherSection
    \/ MonthlySection
    \/ LagSection

InitScript == IdleOps /\ InitRun

SpecRun == InitScript /\ [][NextRun]_vars

(***************************************************************************)
(* Properties                                                              *)
(***************************************************************************)
BaseColumns ==
    {"dteday", "yr", "mnth", "weekday", "hr", "weathersit",
     "casual", "registered", "cnt"}

RECURSIVE SumOver(_, _, _)
SumOver(t, I, c) ==
    IF I = {} THEN 0
    ELSE LET i == CHOOSE x \in I : TRUE
         IN  t[i][c] + SumOver(t, I \ {i}, c)

\* the float x is exactly sum / count
IsMean(x, sum, count) == x.k = "num" /\ x.n * count = x.d * sum

\* C1: no aggregation operation changes the table it is given: columns and
\* row values of the input are the same after the call as before it.
C1_InputNeverMutated == [][df' = df]_vars

Chronological(t) == \A i \in 1..(Len(t) - 1) : t[i].dteday <= t[i + 1].dteday

LagOf(t, i, c) == IF i \in 1..Len(t) THEN <<t[i][c]>> ELSE <<>>

\* C2: on chronologically ordered records create_lag_analysis_df returns
\* exactly the rows with weathersit >= 3, in their input order; the lag1
\* fields of the row at input position i are the counts of position i+1 and
\* the lag2 fields those of position i+2, whatever their weather, and are
\* missing when that position does not exist.
C2_LagRows ==
    (last = "create_lag_analysis_df" /\ Chronological(df)) =>
        LET bad == {i \in 1..Len(df) : df[i].weathersit >= 3}
        IN  /\ Len(out) = Cardinality(bad)
            /\ \E pos \in [1..Len(out) -> bad] :
                 /\ \A j \in 1..Len(out), h \in 1..Len(out) :
                        j < h => pos[j] < pos[h]
                 /\ \A j \in 1..Len(out) :
                      /\ \A c \in BaseColumns : out[j][c] = df[pos[j]][c]
                      /\ \A c \in CountColumns :
                           /\ out[j][c \o "_lag1"] = LagOf(df, pos[j] + 1, c)
                           /\ out[j][c \o "_lag2"] = LagOf(df, pos[j] + 2, c)

C2_Witness ==
    /\ last = "create_lag_analysis_df"
    /\ Chronological(df)
    /\ \E i \in 1..Len(df) :
         /\ df[i].weathersit >= 3
         /\ i + 2 <= Len(df)
         /\ df[i + 2].weathersit < 3
    /\ \E i \in 1..Len(df) :
         /\ df[i].weathersit >= 3
         /\ i + 1 <= Len(df)
         /\ i + 2 > Len(df)
    /\ Len(out) = 2

AllRecordsMean(t, y, c) ==
    LET I == {i \in 1..Len(t) : t[i].yr = y}
    IN  IF I = {} THEN NaN ELSE FDiv(Num(SumOver(t, I, c), 1), Num(Cardinality(I), 1))

AllRecordsGrowth(t, c) ==
    FMul(FAdd(FDiv(AllRecordsMean(t, 1, c), AllRecordsMean(t, 0, c)), Num(-1, 1)),
         Num(100, 1))

\* C3: the year-over-year growth of casual and of registered is
\* (mean over all records of year 1 / mean over all records of year 0 - 1)
\* * 100, the means taken over the raw records, not over the monthly means.
C3_GrowthOverAllRecords ==
    last = "monthly_trends" =>
        /\ pertumbuhan_tahunan.casual = AllRecordsGrowth(df, "casual")
        /\ pertumbuhan_tahunan.registered = AllRecordsGrowth(df, "registered")

\* C4: when the year-0 mean of a count field is zero, or year 0 has no
\* records, the growth of that field is the undefined marker: not infinity,
\* not zero, not a number.
C4_ZeroBaseIsUndefined ==
    last = "monthly_trends" =>
        \A c \in {"casual", "registered"} :
            (\A i \in 1..Len(df) : df[i].yr = 0 => df[i][c] = 0)
                => pertumbuhan_tahunan[c] = NaN

\* C5: whatever date range and weather conditions are selected, also when
\* they exclude every record or every record of hour 8, hour 17, Sunday,
\* Friday or weather 1, the run computes every aggregation without failing,
\* and an empty filtered table gives empty aggregates.
C5_RunNeverFails ==
    /\ pc # "error"
    /\ (pc \notin {"load", "filters", "hourly"} /\ filtered_hour_df = <<>>)
          => hourly_patterns = <<>>

GroupKeyOf(op) ==
    IF op = "create_hourly_patterns_df" THEN "hr"
    ELSE IF op = "create_daily_patterns_df" THEN "weekday"
    ELSE "weathersit"

\* C6: the hourly, weekday and weather patterns have exactly one row per key
\* value present in the input, no other key, no duplicate, in ascending
\* order of the key.
C6_OneRowPerKey ==
    last \in {"create_hourly_patterns_df", "create_daily_patterns_df",
              "create_weather_impact_df"} =>
        LET k == GroupKeyOf(last)
        IN  /\ {out[g][k] : g \in 1..Len(out)} = {df[i][k] : i \in 1..Len(df)}
            /\ \A g \in 1..Len(out), h \in 1..Len(out) :
                   g < h => out[g][k] < out[h][k]

C6_Witness ==
    /\ last = "create_hourly_patterns_df"
    /\ Len(out) = 2
    /\ Len(df) = 3
    /\ df[1].hr > df[2].hr

\* C7: calling an aggregation operation again on the table the previous call
\* of the same operation was given returns the same table, rows in the same
\* order.
C7_SecondCallSameOutput == [][last' = last => out' = out]_vars

C7_Witness ==
    /\ last = "create_lag_analysis_df"
    /\ repeated
    /\ Len(out) >= 2
    /\ out[1].cnt_lag1 # <<>>
    /\ out[1].cnt_lag2 # <<>>
    /\ out[1].cnt_lag1 # out[1].cnt_lag2

LabelOf(op) ==
    IF op = "create_daily_patterns_df" THEN "day_name" ELSE "weather_desc"

\* C8: a record whose grouping key is outside the label mapping is grouped
\* as a row of its own and that row's label is a fallback label, not a
\* missing value.
C8_UnmappedKeyHasLabel ==
    last \in {"create_daily_patterns_df", "create_weather_impact_df"} =>
        /\ \A i \in 1..Len(df) :
             \E g \in 1..Len(out) : out[g][GroupKeyOf(last)] = df[i][GroupKeyOf(last)]
        /\ \A g \in 1..Len(out) : out[g][LabelOf(last)] # NaNLabel

C10_MeanTotalIsSum ==
    (/\ last = "create_hourly_patterns_df"
     /\ \A i \in 1..Len(df) : df[i].cnt = df[i].casual + df[i].registered) =>
        \A g \in 1..Len(out) :
            out[g].cnt = FAdd(out[g].casual, out[g].registered)

C10_Witness ==
    /\ last = "create_hourly_patterns_df"
    /\ \E g \in 1..Len(out) :
         /\ out[g].cnt.d > 1
         /\ out[g].casual.d > 1
         /\ out[g].registered.n > 0

====
